---- MODULE Spec2Model ----
(***************************************************************************)
(* State-machine model of the form-management server (src/app.js), its     *)
(* record schema (src/unnamed/part_000, the User model) and the admin      *)
(* grid script (src/unnamed/part_001).                                      *)
(*                                                                         *)
(* Text that the code inspects character by character (names, e-mail       *)
(* addresses, contact numbers, query parameters, request paths) is a       *)
(* sequence of one-character strings.  Messages shown to the user are      *)
(* records [prefix, tpl, str, num]: a template with its arguments.         *)
(***************************************************************************)
EXTENDS Integers, Sequences, FiniteSets, TLC

VARIABLES
    dbState,      \* mongoose connection: "connecting" | "retryWait" | "connected" | "disconnected"
    storeUp,      \* environment: whether the MongoDB server is reachable
    openListener, \* whether the once("open") listener is still registered
    listenCalls,  \* number of app.listen calls made so far
    sessions,     \* express-session store, one slot per client cookie
    users,        \* the users collection, in insertion order
    nextId,       \* next store-assigned _id
    today,        \* the server's current date [y, m, d]
    hits,         \* express-rate-limit counter of the current window, per client
    handled,      \* /api/validate-email requests that reached the handler in the window, per client
    res,          \* the response to the last request
    dash          \* the GET /dashboard handler that is between two of its store queries

vars == <<dbState, storeUp, openListener, listenCalls, sessions, users, nextId,
          today, hits, handled, res, dash>>

(***************************************************************************)
(* Bounds of the model.                                                    *)
(***************************************************************************)
MaxIds == 3
MaxExcess == 2

Clients == {"c1", "c2"}

(***************************************************************************)
(* Text helpers.                                                           *)
(***************************************************************************)
UpperChars == <<"A","B","C","D","E","F","G","H","I","J","K","L","M",
                "N","O","P","Q","R","S","T","U","V","W","X","Y","Z">>
LowerChars == <<"a","b","c","d","e","f","g","h","i","j","k","l","m",
                "n","o","p","q","r","s","t","u","v","w","x","y","z">>
Digits == {"0","1","2","3","4","5","6","7","8","9"}

ToLowerChar(c) ==
    IF \E i \in 1..26 : UpperChars[i] = c
    THEN LowerChars[CHOOSE i \in 1..26 : UpperChars[i] = c]
    ELSE c

\* String.prototype.toLowerCase
toLowerCase(s) == [i \in 1..Len(s) |-> ToLowerChar(s[i])]

IsSpace(c) == c \in {" ", "\t", "\n"}

RECURSIVE TrimStart(_)
TrimStart(s) == IF s # <<>> /\ IsSpace(s[1]) THEN TrimStart(Tail(s)) ELSE s

RECURSIVE TrimEnd(_)
TrimEnd(s) ==
    IF s # <<>> /\ IsSpace(s[Len(s)]) THEN TrimEnd(SubSeq(s, 1, Len(s) - 1)) ELSE s

\* String.prototype.trim (also the schema's trim: true and express-validator's trim())
trim(s) == TrimEnd(TrimStart(s))

\* String.prototype.includes
Includes(s, t) ==
    \E i \in 0..(Len(s) - Len(t)) : SubSeq(s, i + 1, i + Len(t)) = t

DigitValue(c) ==
    CASE c = "0" -> 0 [] c = "1" -> 1 [] c = "2" -> 2 [] c = "3" -> 3
      [] c = "4" -> 4 [] c = "5" -> 5 [] c = "6" -> 6 [] c = "7" -> 7
      [] c = "8" -> 8 [] c = "9" -> 9

(***************************************************************************)
(* Messages.                                                               *)
(***************************************************************************)
Msg(t) == [prefix |-> "", tpl |-> t, str |-> <<>>, num |-> 0]
NullMsg == Msg("null")
WithPrefix(p, m) == [m EXCEPT !.prefix = p]

(***************************************************************************)
(* Configuration (src/app.js:18-20).                                       *)
(***************************************************************************)
ADMIN_USER == "admin"
ADMIN_PASSWORD == "admin123"

\* The number of failed logins after which POST /admin locks (src/app.js:578).
MaxAttempts == 3
\* typeof req.session.attempts === "undefined"
Undefined == -1

(***************************************************************************)
(* Responses.                                                              *)
(***************************************************************************)
\* The inputs of a request, as far as the model keeps them: the body, the query
\* string and what the call to the deliverability service produced.
NoReq ==
    [body |-> [has |-> {}, name |-> <<>>, email |-> <<>>,
               dob |-> [y |-> 0, m |-> 0, d |-> 0], contact |-> <<>>,
               state |-> <<>>, country |-> <<>>],
     reply |-> [kind |-> "none", deliverability |-> <<>>, quality |-> 0],
     id |-> 0, page |-> <<>>, limit |-> <<>>, search |-> <<>>]

InBody(body, reply) == [NoReq EXCEPT !.body = body, !.reply = reply]

\* req.params.id and req.body
InBodyOf(id, body, reply) == [InBody(body, reply) EXCEPT !.id = id]

InQuery(page, limit, search) ==
    [NoReq EXCEPT !.page = page, !.limit = limit, !.search = search]

\* The four chart series of the dashboard, each a set of [label, count].
NoSeries == [overTime |-> {}, byCountry |-> {}, age |-> {}, topStates |-> {}]

\* Before any request.  seq is the parity of the number of requests handled;
\* req is what the handler that answered was given.
NoRequest ==
    [seq |-> 0, req |-> NoReq, client |-> "c1", route |-> "none", status |-> 200, kind |-> "none",
     target |-> "", error |-> NullMsg, errors |-> <<>>, success |-> FALSE,
     validationMessage |-> NullMsg, users |-> <<>>, page |-> 0,
     totalPages |-> 0, totalUsers |-> 0, queries |-> 0, gateway |-> 0,
     series |-> NoSeries]

\* The response to the request now handled, before the handler fills it in.
Resp(c, route) ==
    [NoRequest EXCEPT !.seq = 1 - res.seq, !.client = c, !.route = route]

\* The response r, to a request with inputs q.
Asked(r, q) == [r EXCEPT !.req = q]

Redirect(c, route, status, to) ==
    [Resp(c, route) EXCEPT !.status = status, !.kind = "redirect", !.target = to]

Render(c, route, status, view, err) ==
    [Resp(c, route) EXCEPT !.status = status, !.kind = "render", !.target = view,
                           !.error = err]

Json(c, route, status, err) ==
    [Resp(c, route) EXCEPT !.status = status, !.kind = "json", !.error = err]

(***************************************************************************)
(* Start-up: connectWithRetry and the once("open") listener.               *)
(***************************************************************************)
Listening == listenCalls > 0

\* mongoose.connection.once("open", ...): the listener runs and is removed.
OnceOpen(registered) == [calls |-> IF registered THEN 1 ELSE 0, stays |-> FALSE]

\* The connection emits "open".
EmitOpen ==
    LET r == OnceOpen(openListener)
    IN  /\ listenCalls' = listenCalls + r.calls
        /\ openListener' = (openListener /\ r.stays)

\* mongoose.connect(...) resolves: .then logs, the connection emits "open".
ConnectResolve ==
    /\ dbState = "connecting"
    /\ storeUp
    /\ dbState' = "connected"
    /\ EmitOpen
    /\ UNCHANGED <<storeUp, sessions, users, nextId, today, dash, hits, handled, res>>

\* a .catch that only logs the failure
OnConnectError_GiveUp == "failed"

\* What the .catch of connectWithRetry does with a failed attempt.
OnConnectError == "retryWait"

\* mongoose.connect(...) rejects: .catch schedules connectWithRetry in 5 s.
ConnectReject ==
    /\ dbState = "connecting"
    /\ ~storeUp
    /\ dbState' = OnConnectError
    /\ UNCHANGED <<storeUp, openListener, listenCalls, sessions, users, nextId,
                   today, dash, hits, handled, res>>

\* The 5 s timer fires: connectWithRetry runs again.
RetryTimer ==
    /\ dbState = "retryWait"
    /\ dbState' = "connecting"
    /\ UNCHANGED <<storeUp, openListener, listenCalls, sessions, users, nextId,
                   today, dash, hits, handled, res>>

\* An established connection is lost.
DbDisconnect ==
    /\ dbState = "connected"
    /\ ~storeUp
    /\ dbState' = "disconnected"
    /\ UNCHANGED <<storeUp, openListener, listenCalls, sessions, users, nextId,
                   today, dash, hits, handled, res>>

\* The driver reconnects on its own; the connection may emit "open" again.
DbReconnect ==
    /\ dbState = "disconnected"
    /\ storeUp
    /\ dbState' = "connected"
    /\ \/ EmitOpen
       \/ UNCHANGED <<openListener, listenCalls>>
    /\ UNCHANGED <<storeUp, sessions, users, nextId, today, dash, hits, handled, res>>

\* Environment: the MongoDB server becomes reachable or unreachable.
StoreComesUp ==
    /\ ~storeUp
    /\ storeUp' = TRUE
    /\ UNCHANGED <<dbState, openListener, listenCalls, sessions, users, nextId,
                   today, dash, hits, handled, res>>

StoreGoesDown ==
    /\ storeUp
    /\ storeUp' = FALSE
    /\ UNCHANGED <<dbState, openListener, listenCalls, sessions, users, nextId,
                   today, dash, hits, handled, res>>

\* Whether a store operation issued now succeeds.
DbOk == dbState = "connected" /\ storeUp

\* No GET /dashboard handler is waiting for the store.
NoDash ==
    [pc |-> "idle", client |-> "c1", total |-> 0, overTime |-> {}, byCountry |-> {},
     age |-> {}, topStates |-> {}, queries |-> 0]

(***************************************************************************)
(* Sessions and the admin gate.                                            *)
(***************************************************************************)
NoSession == [live |-> FALSE, isAdmin |-> FALSE, attempts |-> Undefined]

\* a guard that only asks whether there is a session
ensureAdmin_AnySession(sess) == sess.live

\* ensureAdmin: req.session && req.session.isAdmin
ensureAdmin(sess) == sess.isAdmin

\* app.use: if (typeof req.session.attempts === "undefined") req.session.attempts = 0
AttemptsInit(sess) ==
    IF sess.attempts = Undefined
    THEN [sess EXCEPT !.live = TRUE, !.attempts = 0]
    ELSE sess

\* The response of ensureAdmin to a session that is not admin.
Unauthorized(c, route) ==
    /\ res' = Redirect(c, route, 302, "/admin")
    /\ UNCHANGED <<sessions, users, nextId>>

\* a handler that compares the credentials before it looks at the counter
PostAdminOutcome_CredentialsFirst(sess, username, password) ==
    IF username = ADMIN_USER /\ password = ADMIN_PASSWORD
    THEN [sess |-> [sess EXCEPT !.isAdmin = TRUE, !.attempts = 0],
          error |-> NullMsg]
    ELSE IF sess.attempts >= MaxAttempts
    THEN [sess |-> sess,
          error |-> Msg("Too many failed attempts. Please try again later.")]
    ELSE [sess |-> [sess EXCEPT !.attempts = sess.attempts + 1],
          error |-> [Msg("Invalid credentials. ${n} attempts remaining.")
                        EXCEPT !.num = MaxAttempts - (sess.attempts + 1)]]

\* a handler whose refusal also takes the admin flag away
PostAdminOutcome_FailureRevokes(sess, username, password) ==
    IF sess.attempts >= MaxAttempts
    THEN [sess |-> sess,
          error |-> Msg("Too many failed attempts. Please try again later.")]
    ELSE IF username = ADMIN_USER /\ password = ADMIN_PASSWORD
    THEN [sess |-> [sess EXCEPT !.isAdmin = TRUE, !.attempts = 0],
          error |-> NullMsg]
    ELSE [sess |-> [sess EXCEPT !.isAdmin = FALSE, !.attempts = sess.attempts + 1],
          error |-> [Msg("Invalid credentials. ${n} attempts remaining.")
                        EXCEPT !.num = MaxAttempts - (sess.attempts + 1)]]

\* The session after POST /admin and the error it renders (NullMsg: redirect).
PostAdminOutcome(sess, username, password) ==
    IF sess.attempts >= MaxAttempts
    THEN [sess |-> sess,
          error |-> Msg("Too many failed attempts. Please try again later.")]
    ELSE IF username = ADMIN_USER /\ password = ADMIN_PASSWORD
    THEN [sess |-> [sess EXCEPT !.isAdmin = TRUE, !.attempts = 0],
          error |-> NullMsg]
    ELSE [sess |-> [sess EXCEPT !.attempts = sess.attempts + 1],
          error |-> [Msg("Invalid credentials. ${n} attempts remaining.")
                        EXCEPT !.num = MaxAttempts - (sess.attempts + 1)]]

GetAdmin(c) ==
    /\ Listening
    /\ sessions' = [sessions EXCEPT ![c] = AttemptsInit(sessions[c])]
    /\ res' = Render(c, "GET /admin", 200, "admin", NullMsg)
    /\ UNCHANGED <<dbState, storeUp, openListener, listenCalls, users, nextId,
                   today, dash, hits, handled>>

PostAdmin(c, username, password) ==
    /\ Listening
    /\ LET o == PostAdminOutcome(AttemptsInit(sessions[c]), username, password)
       IN  /\ sessions' = [sessions EXCEPT ![c] = o.sess]
           /\ res' = IF o.error = NullMsg
                     THEN Redirect(c, "POST /admin", 302, "/dashboard")
                     ELSE Render(c, "POST /admin", 200, "admin", o.error)
    /\ UNCHANGED <<dbState, storeUp, openListener, listenCalls, users, nextId,
                   today, dash, hits, handled>>

\* a logout that only takes the admin flag away
Logout_ClearsAdminOnly(c) ==
    /\ Listening
    /\ sessions' = [sessions EXCEPT ![c].isAdmin = FALSE]
    /\ res' = Redirect(c, "GET /logout", 302, "/admin")
    /\ UNCHANGED <<dbState, storeUp, openListener, listenCalls, users, nextId,
                   today, dash, hits, handled>>

\* req.session.destroy
Logout(c) ==
    /\ Listening
    /\ sessions' = [sessions EXCEPT ![c] = NoSession]
    /\ res' = Redirect(c, "GET /logout", 302, "/admin")
    /\ UNCHANGED <<dbState, storeUp, openListener, listenCalls, users, nextId,
                   today, dash, hits, handled>>

\* The session cookie reaches its maxAge (24 h) and the session is dropped.
SessionExpire(c) ==
    /\ sessions[c].live
    /\ sessions' = [sessions EXCEPT ![c] = NoSession]
    /\ UNCHANGED <<dbState, storeUp, openListener, listenCalls, users, nextId,
                   today, dash, hits, handled, res>>

\* GET / and GET /about
GetPublic(c, route) ==
    /\ Listening
    /\ res' = Render(c, route, 200, IF route = "GET /" THEN "index" ELSE "about", NullMsg)
    /\ UNCHANGED <<dbState, storeUp, openListener, listenCalls, sessions, users,
                   nextId, today, dash, hits, handled>>

GetCreate(c) ==
    /\ Listening
    /\ IF ensureAdmin(sessions[c])
       THEN /\ res' = Render(c, "GET /create", 200, "create", NullMsg)
            /\ UNCHANGED <<sessions, users, nextId>>
       ELSE Unauthorized(c, "GET /create")
    /\ UNCHANGED <<dbState, storeUp, openListener, listenCalls, today, dash, hits, handled>>

(***************************************************************************)
(* Dates.  A date is [y, m, d]; Time counts days since 1970-01-01 and,     *)
(* like the Date constructor, carries an overflowing day into the next     *)
(* month.  The server's zone is taken to be UTC.                            *)
(***************************************************************************)
IsLeap(y) == (y % 4 = 0 /\ y % 100 # 0) \/ y % 400 = 0

DaysInMonth(y, m) ==
    CASE m \in {1, 3, 5, 7, 8, 10, 12} -> 31
      [] m \in {4, 6, 9, 11} -> 30
      [] OTHER -> IF IsLeap(y) THEN 29 ELSE 28

RECURSIVE DaysBeforeMonth(_, _)
DaysBeforeMonth(y, m) ==
    IF m <= 1 THEN 0 ELSE DaysBeforeMonth(y, m - 1) + DaysInMonth(y, m - 1)

LeapsBefore(y) == ((y - 1) \div 4) - ((y - 1) \div 100) + ((y - 1) \div 400)

Time(date) ==
    365 * (date.y - 1970) + LeapsBefore(date.y) - LeapsBefore(1970)
        + DaysBeforeMonth(date.y, date.m) + (date.d - 1)

NotADate == [y |-> 0, m |-> 0, d |-> 0]

\* express-validator isDate(): a calendar date in YYYY-MM-DD form
isDate(v) == v.m \in 1..12 /\ v.d \in 1..DaysInMonth(v.y, v.m)

(***************************************************************************)
(* The User schema (src/unnamed/part_000).                                 *)
(***************************************************************************)
NameMinLen == 2
NameMaxLen == 50
ContactLen == 10
MaxAgeYears == 120

\* /^[^\s@]+@[^\s@]+\.[^\s@]+$/
EmailShape(s) ==
    /\ \A i \in 1..Len(s) : ~IsSpace(s[i])
    /\ Cardinality({i \in 1..Len(s) : s[i] = "@"}) = 1
    /\ LET at == CHOOSE i \in 1..Len(s) : s[i] = "@"
       IN  /\ at > 1
           /\ \E dot \in (at + 2)..(Len(s) - 1) : s[dot] = "."

\* /^[0-9]{10}$/
ContactShape(s) == Len(s) = ContactLen /\ \A i \in 1..Len(s) : s[i] \in Digits

\* dob.validate.validator
DobValidator(value, now) ==
    LET minDate == [y |-> now.y - MaxAgeYears, m |-> now.m, d |-> now.d]
    IN  Time(value) <= Time(now) /\ Time(value) >= Time(minDate)

Fields == {"name", "email", "dob", "contact", "state", "country"}

\* The schema's setters (trim, lowercase), run when a document or an update is cast.
\* a schema whose email path has no lowercase setter
Cast_KeepsCase(b) ==
    [b EXCEPT !.name = trim(b.name),
              !.email = trim(b.email),
              !.state = trim(b.state),
              !.country = trim(b.country)]

Cast(b) ==
    [b EXCEPT !.name = trim(b.name),
              !.email = toLowerCase(trim(b.email)),
              !.state = trim(b.state),
              !.country = trim(b.country)]

LengthErrors(s, label) ==
    IF Len(s) = 0 THEN <<label \o " is required">>
    ELSE IF Len(s) < NameMinLen THEN <<label \o " must be at least 2 characters">>
    ELSE IF Len(s) > NameMaxLen THEN <<label \o " cannot exceed 50 characters">>
    ELSE <<>>

\* The schema validators of the paths in b.has, on cast values.
SchemaErrors(b, now) ==
    (IF "name" \in b.has THEN LengthErrors(b.name, "Name") ELSE <<>>)
    \o (IF "email" \in b.has /\ ~EmailShape(b.email)
        THEN <<"Please enter a valid email address">> ELSE <<>>)
    \o (IF "dob" \in b.has /\ ~(isDate(b.dob) /\ DobValidator(b.dob, now))
        THEN <<"Date of birth must be valid and not in the future or more than 120 years ago">>
        ELSE <<>>)
    \o (IF "contact" \in b.has /\ ~ContactShape(b.contact)
        THEN <<"Contact number must be a valid 10-digit number">> ELSE <<>>)
    \o (IF "state" \in b.has THEN LengthErrors(b.state, "State") ELSE <<>>)
    \o (IF "country" \in b.has THEN LengthErrors(b.country, "Country") ELSE <<>>)

(***************************************************************************)
(* express-validator chains of the routes.                                 *)
(***************************************************************************)
\* body(f).trim().notEmpty() / isEmail() / isDate() / matches(...), in order.
\* With optional, an absent field is skipped; without, it fails.
ChainErrors(b, optional) ==
    LET checked(f) == IF optional THEN f \in b.has ELSE TRUE
        bad(f, okIfPresent) == checked(f) /\ ~(f \in b.has /\ okIfPresent)
    IN  (IF bad("name", trim(b.name) # <<>>) THEN <<"Name is required">> ELSE <<>>)
        \o (IF bad("email", EmailShape(b.email)) THEN <<"Invalid email address">> ELSE <<>>)
        \o (IF bad("dob", isDate(b.dob)) THEN <<"Invalid date of birth">> ELSE <<>>)
        \o (IF bad("contact", ContactShape(b.contact))
            THEN <<"Contact must be a valid 10-digit number">> ELSE <<>>)
        \o (IF bad("state", trim(b.state) # <<>>) THEN <<"State is required">> ELSE <<>>)
        \o (IF bad("country", trim(b.country) # <<>>) THEN <<"Country is required">> ELSE <<>>)

\* The sanitizers of the chains write the trimmed value back to req.body.
Sanitize(b) ==
    [b EXCEPT !.name = trim(b.name), !.state = trim(b.state), !.country = trim(b.country)]

(***************************************************************************)
(* The e-mail validation gateway.                                          *)
(***************************************************************************)
\* parseFloat(quality_score) > 0.7, with scores in hundredths
QualityThreshold == 70

S_DELIVERABLE == <<"D","E","L","I","V","E","R","A","B","L","E">>
S_UNDELIVERABLE == <<"U","N">> \o S_DELIVERABLE

\* a gateway that reports a failed call as an address that is not valid
validateEmail_FailClosed(email, reply) ==
    [threw |-> FALSE,
     isValid |-> reply.kind = "data" /\ reply.deliverability = S_DELIVERABLE
                     /\ reply.quality > QualityThreshold,
     message |-> IF reply.kind = "data" /\ reply.deliverability = S_DELIVERABLE
                     /\ reply.quality > QualityThreshold
                 THEN Msg("Email validated")
                 ELSE [Msg("Email ${deliverability} (Quality: ${quality_score})")
                          EXCEPT !.str = toLowerCase(reply.deliverability),
                                 !.num = reply.quality]]

\* validateEmail: reply is what the HTTP call produced.
validateEmail(email, reply) ==
    IF reply.kind = "data"
    THEN LET isValid == reply.deliverability = S_DELIVERABLE /\ reply.quality > QualityThreshold
         IN  [threw |-> FALSE, isValid |-> isValid,
              message |-> IF isValid THEN Msg("Email validated")
                          ELSE [Msg("Email ${deliverability} (Quality: ${quality_score})")
                                   EXCEPT !.str = toLowerCase(reply.deliverability),
                                          !.num = reply.quality]]
    ELSE [threw |-> TRUE, isValid |-> FALSE,
          message |-> WithPrefix("Failed to validate email: ",
                                 IF reply.kind = "malformed"
                                 THEN Msg("Invalid API response format")
                                 ELSE Msg("Network Error"))]

\* catch (err) { validationMessage = "Validation unavailable"; }
ValidationUnavailable == Msg("Validation unavailable")

\* a handler that saves whatever the gateway said
GatewayBlocks_Never(v) == FALSE

\* if (!validationResult.isValid) return res.render(...): the handler stops
GatewayBlocks(v) == ~v.threw /\ ~v.isValid

(***************************************************************************)
(* The record store.                                                       *)
(***************************************************************************)
Ids == {users[i].id : i \in 1..Len(users)}

IndexOf(id) == CHOOSE i \in 1..Len(users) : users[i].id = id

\* The unique index on email.
DuplicateKey(email, exceptId) ==
    \E i \in 1..Len(users) : users[i].email = email /\ users[i].id # exceptId

\* save() of a document built by new User(fields), which ran the setters (Cast):
\* validate, insert; the post("save") hook renames E11000.
Save(doc, status) ==
    LET errs == SchemaErrors([doc EXCEPT !.has = Fields], today)
    IN  IF errs # <<>>
        THEN [ok |-> FALSE, error |-> Msg("User validation failed"), errors |-> errs,
              users |-> users]
        ELSE IF ~DbOk
        THEN [ok |-> FALSE, error |-> Msg("Operation buffering timed out"),
              errors |-> <<>>, users |-> users]
        ELSE IF DuplicateKey(doc.email, 0)
        THEN [ok |-> FALSE, error |-> Msg("Email already exists"), errors |-> <<>>,
              users |-> users]
        ELSE [ok |-> TRUE, error |-> NullMsg, errors |-> <<>>,
              users |-> Append(users,
                  [id |-> nextId, name |-> doc.name, email |-> doc.email,
                   dob |-> doc.dob, contact |-> doc.contact, state |-> doc.state,
                   country |-> doc.country, createdAt |-> today,
                   validationStatus |-> status])]

\* an update that sets all six fields, sent or not
Truthy_AllFields(b) == Fields

\* if (field) updateData.field = field: the fields a body sets, by truthiness.
Truthy(b) ==
    {f \in b.has : CASE f = "dob" -> TRUE [] OTHER -> b[f] # <<>>}

\* an update that never writes validationStatus
ApplyUpdate_KeepsStatus(u, doc, has, status, setStatus) ==
    [id |-> u.id,
     name |-> IF "name" \in has THEN doc.name ELSE u.name,
     email |-> IF "email" \in has THEN doc.email ELSE u.email,
     dob |-> IF "dob" \in has THEN doc.dob ELSE u.dob,
     contact |-> IF "contact" \in has THEN doc.contact ELSE u.contact,
     state |-> IF "state" \in has THEN doc.state ELSE u.state,
     country |-> IF "country" \in has THEN doc.country ELSE u.country,
     createdAt |-> u.createdAt,
     validationStatus |-> u.validationStatus]

\* The document after $set of the cast fields in `has`.
ApplyUpdate(u, doc, has, status, setStatus) ==
    [id |-> u.id,
     name |-> IF "name" \in has THEN doc.name ELSE u.name,
     email |-> IF "email" \in has THEN doc.email ELSE u.email,
     dob |-> IF "dob" \in has THEN doc.dob ELSE u.dob,
     contact |-> IF "contact" \in has THEN doc.contact ELSE u.contact,
     state |-> IF "state" \in has THEN doc.state ELSE u.state,
     country |-> IF "country" \in has THEN doc.country ELSE u.country,
     createdAt |-> u.createdAt,
     validationStatus |-> IF setStatus THEN status ELSE u.validationStatus]

\* User.findByIdAndUpdate(id, updateData, {new: true, runValidators}), doc being
\* the update after Mongoose has cast it with the schema's setters (Cast)
findByIdAndUpdate(id, doc, has, status, setStatus, runValidators) ==
    LET errs == IF runValidators
                THEN SchemaErrors([doc EXCEPT !.has = has], today) ELSE <<>>
    IN  IF errs # <<>>
        THEN [ok |-> FALSE, found |-> FALSE, error |-> Msg("Validation failed"),
              errors |-> errs, users |-> users]
        ELSE IF ~DbOk
        THEN [ok |-> FALSE, found |-> FALSE, error |-> Msg("Operation buffering timed out"),
              errors |-> <<>>, users |-> users]
        ELSE IF id \notin Ids
        THEN [ok |-> TRUE, found |-> FALSE, error |-> NullMsg, errors |-> <<>>,
              users |-> users]
        ELSE IF "email" \in has /\ DuplicateKey(doc.email, id)
        THEN [ok |-> FALSE, found |-> TRUE, error |-> Msg("E11000 duplicate key error"),
              errors |-> <<>>, users |-> users]
        ELSE [ok |-> TRUE, found |-> TRUE, error |-> NullMsg, errors |-> <<>>,
              users |-> [users EXCEPT ![IndexOf(id)] =
                            ApplyUpdate(users[IndexOf(id)], doc, has, status, setStatus)]]

\* Remove the record with this id.
Without(id) ==
    LET keep(u) == u.id # id
    IN  SelectSeq(users, keep)

(***************************************************************************)
(* Query parameters and pagination.                                        *)
(***************************************************************************)
DefaultApiLimit == 50
PageSize == 10

RECURSIVE DigitsValue(_)
DigitsValue(s) ==
    IF s = <<>> THEN 0
    ELSE 10 * DigitsValue(SubSeq(s, 1, Len(s) - 1)) + DigitValue(s[Len(s)])

\* parseInt: leading blanks, an optional sign, then the longest run of digits.
parseInt(str) ==
    LET t == trim(str)
        neg == t # <<>> /\ t[1] = "-"
        body == IF t # <<>> /\ t[1] \in {"-", "+"} THEN Tail(t) ELSE t
        stop == {i \in 1..Len(body) : body[i] \notin Digits}
        n == IF stop = {} THEN Len(body)
             ELSE (CHOOSE i \in stop : \A j \in stop : i <= j) - 1
        v == DigitsValue(SubSeq(body, 1, n))
    IN  [nan |-> n = 0, val |-> IF neg THEN 0 - v ELSE v]

\* parseInt(x) || dflt
IntOr(str, dflt) ==
    LET r == parseInt(str)
    IN  IF r.nan \/ r.val = 0 THEN dflt ELSE r.val

\* a page count that rounds down
TotalPages_Floor(total, limit) == total \div limit

\* Math.ceil(total / limit), limit > 0
TotalPages(total, limit) == 0 - ((0 - total) \div limit)

\* find(query).skip(skip).limit(limit) over the matching records
SkipLimit(matching, skip, limit) ==
    SubSeq(matching, skip + 1, IF skip + limit < Len(matching) THEN skip + limit
                               ELSE Len(matching))

\* { name: { $regex: search, $options: 'i' } }, for a search without metacharacters
Matching(search) ==
    LET hit(u) == Includes(toLowerCase(u.name), toLowerCase(search))
    IN  IF search = <<>> THEN users ELSE SelectSeq(users, hit)

(***************************************************************************)
(* The public submission.                                                  *)
(***************************************************************************)
\* POST /submit
Submit(c, body, reply) ==
    /\ Listening
    /\ \E errs \in {ChainErrors(body, FALSE)}, b \in {Sanitize(body)} :
       \E v \in {validateEmail(b.email, reply)} :
       \E vm \in {IF v.threw THEN ValidationUnavailable ELSE v.message} :
       \E doc \in {Cast(b)} :
       \E o \in {Save(doc, vm)} :
           IF errs # <<>>
           THEN /\ res' = [Asked(Render(c, "POST /submit", 200, "index", Msg("validation")), InBody(body, reply))
                              EXCEPT !.errors = errs]
                /\ UNCHANGED <<users, nextId>>
           ELSE IF GatewayBlocks(v)
           THEN /\ res' = [Asked(Render(c, "POST /submit", 200, "index", v.message), InBody(body, reply))
                              EXCEPT !.gateway = 1]
                /\ UNCHANGED <<users, nextId>>
           ELSE IF o.ok
           THEN /\ nextId <= MaxIds
                /\ users' = o.users
                /\ nextId' = nextId + 1
                /\ res' = [Asked(Render(c, "POST /submit", 200, "index", NullMsg), InBody(body, reply))
                              EXCEPT !.success = TRUE, !.validationMessage = vm,
                                     !.gateway = 1, !.queries = 1]
           ELSE /\ res' = [Asked(Render(c, "POST /submit", 200, "index", WithPrefix("Server error: ", o.error)), InBody(body, reply))
                              EXCEPT !.errors = o.errors, !.gateway = 1,
                                     !.queries = IF o.errors = <<>> THEN 1 ELSE 0]
                /\ UNCHANGED <<users, nextId>>
    /\ UNCHANGED <<dbState, storeUp, openListener, listenCalls, sessions, today, dash,
                   hits, handled>>

(***************************************************************************)
(* The admin JSON API.                                                     *)
(***************************************************************************)
\* GET /api/users
ApiGetUsers(c, pageParam, limitParam, searchParam) ==
    /\ Listening
    /\ IF ensureAdmin(sessions[c])
       THEN LET page == IntOr(pageParam, 1)
                limit == IntOr(limitParam, DefaultApiLimit)
                skip == (page - 1) * limit
                matching == Matching(trim(searchParam))
                total == Len(matching)
            IN  /\ res' = IF DbOk /\ skip >= 0
                          THEN [Asked(Json(c, "GET /api/users", 200, NullMsg), InQuery(pageParam, limitParam, searchParam))
                                   EXCEPT !.users = SkipLimit(matching, skip, limit),
                                          !.page = page,
                                          !.totalPages = TotalPages(total, limit),
                                          !.totalUsers = total,
                                          !.queries = 2]
                          ELSE [Asked(Json(c, "GET /api/users", 500, Msg("Error fetching users")), InQuery(pageParam, limitParam, searchParam))
                                   EXCEPT !.page = 1, !.totalPages = 1, !.queries = 1]
                /\ UNCHANGED <<sessions, users, nextId>>
       ELSE Unauthorized(c, "GET /api/users")
    /\ UNCHANGED <<dbState, storeUp, openListener, listenCalls, today, dash, hits, handled>>

\* GET /api/users/:id
ApiGetUser(c, id) ==
    /\ Listening
    /\ IF ensureAdmin(sessions[c])
       THEN /\ res' = IF ~DbOk
                      THEN [Json(c, "GET /api/users/:id", 500, Msg("Error fetching user"))
                               EXCEPT !.queries = 1]
                      ELSE IF id \notin Ids
                      THEN [Json(c, "GET /api/users/:id", 404, Msg("User not found"))
                               EXCEPT !.queries = 1]
                      ELSE [Json(c, "GET /api/users/:id", 200, NullMsg)
                               EXCEPT !.users = <<users[IndexOf(id)]>>, !.queries = 1]
            /\ UNCHANGED <<sessions, users, nextId>>
       ELSE Unauthorized(c, "GET /api/users/:id")
    /\ UNCHANGED <<dbState, storeUp, openListener, listenCalls, today, dash, hits, handled>>

\* POST /api/users
ApiCreate(c, body) ==
    /\ Listening
    /\ IF ensureAdmin(sessions[c])
       THEN \E errs \in {ChainErrors(body, FALSE)}, doc \in {Cast(Sanitize(body))} :
            \E o \in {Save(doc, NullMsg)} :
                /\ UNCHANGED sessions
                /\ IF errs # <<>>
                   THEN /\ res' = [Asked(Json(c, "POST /api/users", 400, Msg("validation")), InBody(body, NoReq.reply))
                                      EXCEPT !.errors = errs]
                        /\ UNCHANGED <<users, nextId>>
                   ELSE IF o.ok
                   THEN /\ nextId <= MaxIds
                        /\ users' = o.users
                        /\ nextId' = nextId + 1
                        /\ res' = [Asked(Json(c, "POST /api/users", 201, NullMsg), InBody(body, NoReq.reply))
                                      EXCEPT !.users = <<o.users[Len(o.users)]>>,
                                             !.queries = 1]
                   ELSE /\ res' = [Asked(Json(c, "POST /api/users", 500, o.error), InBody(body, NoReq.reply))
                                      EXCEPT !.errors = o.errors,
                                             !.queries = IF o.errors = <<>> THEN 1 ELSE 0]
                        /\ UNCHANGED <<users, nextId>>
       ELSE Unauthorized(c, "POST /api/users")
    /\ UNCHANGED <<dbState, storeUp, openListener, listenCalls, today, dash, hits, handled>>

\* The query options PUT /api/users/:id passes to findByIdAndUpdate: { new: true }
ApiUpdateRunValidators == FALSE

\* PUT /api/users/:id
ApiUpdate(c, id, body) ==
    /\ Listening
    /\ IF ensureAdmin(sessions[c])
       THEN \E errs \in {ChainErrors(body, TRUE)}, b \in {Sanitize(body)} :
            \E doc \in {Cast(b)} :
            \E o \in {findByIdAndUpdate(id, doc, Truthy(b), NullMsg, FALSE,
                                        ApiUpdateRunValidators)} :
                /\ UNCHANGED <<sessions, nextId>>
                /\ IF errs # <<>>
                   THEN /\ res' = [Asked(Json(c, "PUT /api/users/:id", 400, Msg("validation")), InBodyOf(id, body, NoReq.reply))
                                      EXCEPT !.errors = errs]
                        /\ UNCHANGED users
                   ELSE IF ~o.ok
                   THEN /\ res' = [Asked(Json(c, "PUT /api/users/:id", 500, o.error), InBodyOf(id, body, NoReq.reply))
                                      EXCEPT !.errors = o.errors, !.queries = 1]
                        /\ UNCHANGED users
                   ELSE IF ~o.found
                   THEN /\ res' = [Asked(Json(c, "PUT /api/users/:id", 404, Msg("User not found")), InBodyOf(id, body, NoReq.reply))
                                      EXCEPT !.queries = 1]
                        /\ UNCHANGED users
                   ELSE /\ users' = o.users
                        /\ res' = [Asked(Json(c, "PUT /api/users/:id", 200, NullMsg), InBodyOf(id, body, NoReq.reply))
                                      EXCEPT !.users = <<o.users[IndexOf(id)]>>,
                                             !.queries = 1]
       ELSE Unauthorized(c, "PUT /api/users/:id")
    /\ UNCHANGED <<dbState, storeUp, openListener, listenCalls, today, dash, hits, handled>>

\* DELETE /api/users/:id
ApiDelete(c, id) ==
    /\ Listening
    /\ IF ensureAdmin(sessions[c])
       THEN /\ UNCHANGED <<sessions, nextId>>
            /\ IF ~DbOk
               THEN /\ res' = [Json(c, "DELETE /api/users/:id", 500, Msg("Error deleting user"))
                                  EXCEPT !.queries = 1]
                    /\ UNCHANGED users
               ELSE IF id \notin Ids
               THEN /\ res' = [Json(c, "DELETE /api/users/:id", 404, Msg("User not found"))
                                  EXCEPT !.queries = 1]
                    /\ UNCHANGED users
               ELSE /\ users' = Without(id)
                    /\ res' = [Json(c, "DELETE /api/users/:id", 204, NullMsg)
                                  EXCEPT !.queries = 1]
       ELSE Unauthorized(c, "DELETE /api/users/:id")
    /\ UNCHANGED <<dbState, storeUp, openListener, listenCalls, today, dash, hits, handled>>

\* DELETE /api/users
ApiDeleteAll(c) ==
    /\ Listening
    /\ IF ensureAdmin(sessions[c])
       THEN /\ UNCHANGED <<sessions, nextId>>
            /\ IF ~DbOk
               THEN /\ res' = [Json(c, "DELETE /api/users", 500, Msg("Error deleting all users"))
                                  EXCEPT !.queries = 1]
                    /\ UNCHANGED users
               ELSE /\ users' = <<>>
                    /\ res' = [Json(c, "DELETE /api/users", 204, NullMsg)
                                  EXCEPT !.queries = 1]
       ELSE Unauthorized(c, "DELETE /api/users")
    /\ UNCHANGED <<dbState, storeUp, openListener, listenCalls, today, dash, hits, handled>>

(***************************************************************************)
(* The rendered admin pages.                                               *)
(***************************************************************************)
\* GET /users
GetUsers(c, pageParam) ==
    /\ Listening
    /\ IF ensureAdmin(sessions[c])
       THEN LET page == IntOr(pageParam, 1)
                skip == (page - 1) * PageSize
                total == Len(users)
            IN  /\ res' = IF DbOk /\ skip >= 0
                          THEN [Asked(Render(c, "GET /users", 200, "users", NullMsg), InQuery(pageParam, <<>>, <<>>))
                                   EXCEPT !.users = SkipLimit(users, skip, PageSize),
                                          !.page = page,
                                          !.totalPages = TotalPages(total, PageSize),
                                          !.queries = 2]
                          ELSE [Asked(Render(c, "GET /users", 200, "users", Msg("Error loading users. Please try again.")), InQuery(pageParam, <<>>, <<>>))
                                   EXCEPT !.page = 1, !.totalPages = 1, !.queries = 1]
                /\ UNCHANGED <<sessions, users, nextId>>
       ELSE Unauthorized(c, "GET /users")
    /\ UNCHANGED <<dbState, storeUp, openListener, listenCalls, today, dash, hits, handled>>

\* GET /delete-all
DeleteAll(c) ==
    /\ Listening
    /\ IF ensureAdmin(sessions[c])
       THEN /\ UNCHANGED <<sessions, nextId>>
            /\ IF ~DbOk
               THEN /\ res' = [Render(c, "GET /delete-all", 200, "users",
                                      Msg("Error deleting all users"))
                                  EXCEPT !.page = 1, !.totalPages = 1, !.queries = 1]
                    /\ UNCHANGED users
               ELSE /\ users' = <<>>
                    /\ res' = [Redirect(c, "GET /delete-all", 302, "/users")
                                  EXCEPT !.queries = 1]
       ELSE Unauthorized(c, "GET /delete-all")
    /\ UNCHANGED <<dbState, storeUp, openListener, listenCalls, today, dash, hits, handled>>

\* GET /delete/:id
Delete(c, id) ==
    /\ Listening
    /\ IF ensureAdmin(sessions[c])
       THEN /\ UNCHANGED <<sessions, nextId>>
            /\ users' = IF DbOk THEN Without(id) ELSE users
            /\ res' = [Redirect(c, "GET /delete/:id", 302, "/users") EXCEPT !.queries = 1]
       ELSE Unauthorized(c, "GET /delete/:id")
    /\ UNCHANGED <<dbState, storeUp, openListener, listenCalls, today, dash, hits, handled>>

\* GET /export
Export(c) ==
    /\ Listening
    /\ IF ensureAdmin(sessions[c])
       THEN /\ res' = IF DbOk
                      THEN [Resp(c, "GET /export") EXCEPT !.kind = "csv",
                                                          !.target = "users.csv",
                                                          !.users = users,
                                                          !.queries = 1]
                      ELSE [Redirect(c, "GET /export", 302, "/users") EXCEPT !.queries = 1]
            /\ UNCHANGED <<sessions, users, nextId>>
       ELSE Unauthorized(c, "GET /export")
    /\ UNCHANGED <<dbState, storeUp, openListener, listenCalls, today, dash, hits, handled>>

\* GET /edit/:id
GetEdit(c, id) ==
    /\ Listening
    /\ IF ensureAdmin(sessions[c])
       THEN /\ res' = IF DbOk /\ id \in Ids
                      THEN [Render(c, "GET /edit/:id", 200, "edit", NullMsg)
                               EXCEPT !.users = <<users[IndexOf(id)]>>, !.queries = 1]
                      ELSE [Redirect(c, "GET /edit/:id", 302, "/users") EXCEPT !.queries = 1]
            /\ UNCHANGED <<sessions, users, nextId>>
       ELSE Unauthorized(c, "GET /edit/:id")
    /\ UNCHANGED <<dbState, storeUp, openListener, listenCalls, today, dash, hits, handled>>

\* A handler whose await rejects outside any try block: no response is sent.
NoResponse(c, route) == [Resp(c, route) EXCEPT !.status = 0, !.queries = 1]

\* The query options POST /update/:id passes: { new: true, runValidators: true }
UpdateRunValidators == TRUE

\* POST /update/:id
Update(c, id, body, reply) ==
    /\ Listening
    /\ IF ensureAdmin(sessions[c])
       THEN \E errs \in {ChainErrors(body, FALSE)}, b \in {Sanitize(body)} :
            \E v \in {validateEmail(b.email, reply)} :
            \E vm \in {IF v.threw THEN ValidationUnavailable ELSE v.message} :
            \E doc \in {Cast(b)} :
            \E o \in {findByIdAndUpdate(id, doc, Fields, vm, TRUE, UpdateRunValidators)} :
            LET route == "POST /update/:id"
                found == <<users[IndexOf(id)]>>
            IN  /\ UNCHANGED <<sessions, nextId>>
                /\ IF ~DbOk
                   THEN \* findById rejects, in the handler or again in its catch block
                        /\ res' = Asked(NoResponse(c, route), InBodyOf(id, body, reply))
                        /\ UNCHANGED users
                   ELSE IF id \notin Ids
                   THEN \* findById gives null: redirect (from the catch block when the
                        \* fields are valid, as null.validationStatus throws)
                        /\ res' = [Asked(Redirect(c, route, 404, "/users"), InBodyOf(id, body, reply)) EXCEPT !.queries = 1]
                        /\ UNCHANGED users
                   ELSE IF errs # <<>>
                   THEN /\ res' = [Asked(Render(c, route, 400, "edit", Msg("validation")), InBodyOf(id, body, reply))
                                      EXCEPT !.errors = errs, !.users = found,
                                             !.queries = 1]
                        /\ UNCHANGED users
                   ELSE IF GatewayBlocks(v)
                   THEN /\ res' = [Asked(Render(c, route, 400, "edit", v.message), InBodyOf(id, body, reply))
                                      EXCEPT !.users = found, !.gateway = 1,
                                             !.queries = 2]
                        /\ UNCHANGED users
                   ELSE IF ~o.ok
                   THEN /\ res' = [Asked(Render(c, route, 500, "edit", WithPrefix("Failed to update user: ", o.error)), InBodyOf(id, body, reply))
                                      EXCEPT !.errors = o.errors, !.users = found,
                                             !.gateway = 1, !.queries = 3]
                        /\ UNCHANGED users
                   ELSE /\ users' = o.users
                        /\ res' = [Asked(Redirect(c, route, 302, "/users"), InBodyOf(id, body, reply))
                                      EXCEPT !.gateway = 1, !.queries = 2]
       ELSE Unauthorized(c, "POST /update/:id")
    /\ UNCHANGED <<dbState, storeUp, openListener, listenCalls, today, dash, hits, handled>>

\* The records GET /dashboard lists as recent: sort({createdAt: -1}).limit(5)
RecentLimit == 5

(***************************************************************************)
(* The grid script of the users page (src/unnamed/part_001).               *)
(***************************************************************************)
\* The checks updateUser makes before it sends anything; each looks only at a
\* field that has a value.
ClientChecks(updates) ==
    LET given(f) == f \in updates.has /\ (f = "dob" \/ updates[f] # <<>>)
    IN  /\ given("email") => EmailShape(updates.email)
        /\ given("dob") => isDate(updates.dob)
        /\ given("contact") => ContactShape(updates.contact)
        /\ given("state") => Len(updates.state) >= 2 /\ Len(updates.state) <= 50
        /\ given("country") => Len(updates.country) >= 2 /\ Len(updates.country) <= 50

\* fetch(`${apiUrl}/${id}`, { method: 'PATCH', ... })
ClientUpdateMethod == "PATCH"

\* The methods app.js registers for /api/users/:id.
ApiUserMethods == {"GET", "PUT", "DELETE"}

\* A request to /api/users/:id with a JSON body: app.put answers a PUT; a method
\* with no route passes the attempts middleware and ends as Express's 404.
ApiUsersId(c, method, id, body) ==
    IF method = "PUT"
    THEN ApiUpdate(c, id, body)
    ELSE /\ Listening
         /\ method \notin ApiUserMethods
         /\ res' = [Asked(Resp(c, method \o " /api/users/:id"),
                          InBodyOf(id, body, NoReq.reply))
                       EXCEPT !.status = 404, !.kind = "html"]
         /\ sessions' = [sessions EXCEPT ![c] = AttemptsInit(sessions[c])]
         /\ UNCHANGED <<dbState, storeUp, openListener, listenCalls, users, nextId,
                        today, dash, hits, handled>>

\* updateUser(id, updates), called when an edited cell of the grid loses focus:
\* a failed check throws before anything is sent.
updateUser(c, id, updates) ==
    IF ClientChecks(updates)
    THEN ApiUsersId(c, ClientUpdateMethod, id, updates)
    ELSE UNCHANGED vars

(***************************************************************************)
(* GET /dashboard.  The handler awaits up to six store queries, one after  *)
(* the other; each sees the collection as it is when it runs.              *)
(***************************************************************************)
\* { $group: { _id: { year: { $year: "$createdAt" } }, count: { $sum: 1 } } }
UsersByYear(us) ==
    {[label |-> y, count |-> Cardinality({i \in 1..Len(us) : us[i].createdAt.y = y})] :
        y \in {us[i].createdAt.y : i \in 1..Len(us)}}

\* { $group: { _id: "$country", count: { $sum: 1 } } }
UsersByCountry(us) ==
    {[label |-> k, count |-> Cardinality({i \in 1..Len(us) : us[i].country = k})] :
        k \in {us[i].country : i \in 1..Len(us)}}

\* 365.25 days, in quarters of a day
QuarterDaysPerYear == 1461

\* $floor($divide($subtract(today, dob), 1000*60*60*24*365.25)): now is the date
\* of `today` and q the quarter of the day it falls in; dob is a midnight.
Age(dob, now, q) == (4 * (Time(now) - Time(dob)) + q) \div QuarterDaysPerYear

\* $bucket: boundaries [0, 18, 30, 45, 60, 120], default "Other"; a bucket is
\* named by its lower boundary.
Bucket(age) ==
    CASE age < 0 \/ age >= 120 -> "Other"
      [] age < 18 -> "0"
      [] age < 30 -> "18"
      [] age < 45 -> "30"
      [] age < 60 -> "45"
      [] OTHER -> "60"

AgeDistribution(us, now, q) ==
    {[label |-> b,
      count |-> Cardinality({i \in 1..Len(us) : Bucket(Age(us[i].dob, now, q)) = b})] :
        b \in {Bucket(Age(us[i].dob, now, q)) : i \in 1..Len(us)}}

\* usersByCountryAgg[0]?._id || null, the aggregate being sorted by count, largest
\* first, in no fixed order among equal counts: the values it can have ({} if none)
MostCommonCountry(byCountry) ==
    {x.label : x \in {x \in byCountry : x.label # <<>>
                                        /\ \A y \in byCountry : y.count <= x.count}}

\* { $limit: 5 }
TopStatesLimit == 5

\* $match country, $group by state, $sort count -1, $limit 5: the results it can give
TopStates(us, country) ==
    LET all == {[label |-> k,
                 count |-> Cardinality({i \in 1..Len(us) :
                                us[i].country = country /\ us[i].state = k})] :
                   k \in {us[i].state : i \in {j \in 1..Len(us) : us[j].country = country}}}
    IN  IF Cardinality(all) <= TopStatesLimit THEN {all}
        ELSE {T \in SUBSET all :
                 /\ Cardinality(T) = TopStatesLimit
                 /\ \A x \in T, y \in all \ T : x.count >= y.count}

\* if (mostCommonCountry) { topStatesAgg = await ... }: the series it can give,
\* and whether a query was made for it
TopStatesStep(us, byCountry) ==
    IF MostCommonCountry(byCountry) = {}
    THEN {[queries |-> 0, top |-> {}]}
    ELSE UNION {{[queries |-> 1, top |-> t] : t \in TopStates(us, k)} :
                   k \in MostCommonCountry(byCountry)}

\* find().sort({createdAt: -1}).limit(5)
RecentUsers(us) == SkipLimit([i \in 1..Len(us) |-> us[Len(us) + 1 - i]], 0, RecentLimit)

\* catch: res.render("admin", { error: "Error loading dashboard. Please try again." })
\* a handler that runs the aggregates whatever the count
HasRecords_Always(total) == TRUE

\* if (totalUsers > 0)
HasRecords(total) == total > 0

DashboardError(c, queries) ==
    [Render(c, "GET /dashboard", 200, "admin",
            Msg("Error loading dashboard. Please try again."))
        EXCEPT !.queries = queries]

\* res.render("dashboard", {...})
DashboardView(c, total, series, recent, queries) ==
    [Render(c, "GET /dashboard", 200, "dashboard", NullMsg)
        EXCEPT !.totalUsers = total, !.series = series, !.users = recent,
               !.queries = queries]

\* GET /dashboard with no other request between its queries
Dashboard(c) ==
    /\ Listening
    /\ IF ensureAdmin(sessions[c])
       THEN /\ IF ~DbOk
               THEN res' = DashboardError(c, 1)
               ELSE IF ~HasRecords(Len(users))
               THEN res' = DashboardView(c, 0, NoSeries, <<>>, 1)
               ELSE \E q \in 0..3 :
                    \E byCountry \in {UsersByCountry(users)} :
                    \E t \in TopStatesStep(users, byCountry) :
                        res' = DashboardView(c, Len(users),
                                   [overTime |-> UsersByYear(users),
                                    byCountry |-> byCountry,
                                    age |-> AgeDistribution(users, today, q),
                                    topStates |-> t.top],
                                   RecentUsers(users), 5 + t.queries)
            /\ UNCHANGED <<sessions, users, nextId>>
       ELSE Unauthorized(c, "GET /dashboard")
    /\ UNCHANGED <<dbState, storeUp, openListener, listenCalls, today, dash, hits, handled>>

\* The handler's queries one at a time.  Each await hands control back to the
\* event loop, so other requests are handled between two queries; dash holds
\* the handler's locals while it waits.  A query that fails ends in the catch.
DashFrame == UNCHANGED <<dbState, storeUp, openListener, listenCalls, sessions, users,
                         nextId, today, hits, handled>>

DashFails(queries) ==
    /\ res' = DashboardError(dash.client, queries)
    /\ dash' = NoDash

\* const users = await User.find(); const totalUsers = users.length
DashFind(c) ==
    /\ Listening
    /\ dash.pc = "idle"
    /\ ensureAdmin(sessions[c])
    /\ IF ~DbOk
       THEN res' = DashboardError(c, 1) /\ dash' = NoDash
       ELSE IF ~HasRecords(Len(users))
       THEN res' = DashboardView(c, 0, NoSeries, <<>>, 1) /\ dash' = NoDash
       ELSE /\ dash' = [NoDash EXCEPT !.pc = "byYear", !.client = c,
                                      !.total = Len(users), !.queries = 1]
            /\ UNCHANGED res
    /\ DashFrame

\* const usersByYear = await User.aggregate(...)
DashByYear ==
    /\ dash.pc = "byYear"
    /\ IF ~DbOk
       THEN DashFails(dash.queries + 1)
       ELSE /\ dash' = [dash EXCEPT !.pc = "byCountry", !.overTime = UsersByYear(users),
                                    !.queries = @ + 1]
            /\ UNCHANGED res
    /\ DashFrame

\* const usersByCountryAgg = await User.aggregate(...)
DashByCountry ==
    /\ dash.pc = "byCountry"
    /\ IF ~DbOk
       THEN DashFails(dash.queries + 1)
       ELSE /\ dash' = [dash EXCEPT !.pc = "age", !.byCountry = UsersByCountry(users),
                                    !.queries = @ + 1]
            /\ UNCHANGED res
    /\ DashFrame

\* const today = new Date(); const ageDistributionAgg = await User.aggregate(...)
DashAge ==
    /\ dash.pc = "age"
    /\ IF ~DbOk
       THEN DashFails(dash.queries + 1)
       ELSE /\ \E q \in 0..3 :
                  dash' = [dash EXCEPT !.pc = "topStates",
                                       !.age = AgeDistribution(users, today, q),
                                       !.queries = @ + 1]
            /\ UNCHANGED res
    /\ DashFrame

\* if (mostCommonCountry) topStatesAgg = await User.aggregate(...): the country
\* is the one the earlier aggregate found, the states are those of the
\* collection as it is now.
DashTopStates ==
    /\ dash.pc = "topStates"
    /\ IF ~DbOk /\ MostCommonCountry(dash.byCountry) # {}
       THEN DashFails(dash.queries + 1)
       ELSE /\ \E t \in TopStatesStep(users, dash.byCountry) :
                  dash' = [dash EXCEPT !.pc = "recent", !.topStates = t.top,
                                       !.queries = @ + t.queries]
            /\ UNCHANGED res
    /\ DashFrame

\* recentUsers = await User.find().sort(...).limit(5); res.render("dashboard", ...)
DashRecent ==
    /\ dash.pc = "recent"
    /\ IF ~DbOk
       THEN DashFails(dash.queries + 1)
       ELSE /\ res' = DashboardView(dash.client, dash.total,
                         [overTime |-> dash.overTime, byCountry |-> dash.byCountry,
                          age |-> dash.age, topStates |-> dash.topStates],
                         RecentUsers(users), dash.queries + 1)
            /\ dash' = NoDash
    /\ DashFrame

(***************************************************************************)
(* The rate limiter and the public validation endpoint.                    *)
(* A path is the sequence of its pieces, "/" being a piece of its own.     *)
(***************************************************************************)
\* rateLimit({ windowMs: 15 * 60 * 1000, max: 100 })
RateMax == 100

\* app.use("/api/validate", apiLimiter)
LimiterMount == <<"/", "api", "/", "validate">>

ValidateEmailPath == <<"/", "api", "/", "validate", "-email">>

\* Express matches a mount path against whole path segments: the request path
\* starts with the mount path, which is followed by "/" or by the end of the path.
MountMatches(mount, path) ==
    /\ Len(path) >= Len(mount)
    /\ SubSeq(path, 1, Len(mount)) = mount
    /\ (Len(path) = Len(mount) \/ path[Len(mount) + 1] = "/")

\* express-rate-limit: count the request, reject it beyond max.
LimiterRejects(c, path) == MountMatches(LimiterMount, path) /\ hits[c] + 1 > RateMax

LimiterCounts(c, path) ==
    IF MountMatches(LimiterMount, path) THEN [hits EXCEPT ![c] = hits[c] + 1] ELSE hits

\* GET /api/validate-email?email=
ApiValidateEmail(c, email, reply) ==
    /\ Listening
    /\ hits[c] < RateMax + MaxExcess
    /\ handled[c] < RateMax + MaxExcess
    /\ hits' = LimiterCounts(c, ValidateEmailPath)
    /\ LET route == "GET /api/validate-email"
           v == validateEmail(email, reply)
       IN  IF LimiterRejects(c, ValidateEmailPath)
           THEN /\ res' = Json(c, route, 429, Msg("Too many requests, please try again later."))
                /\ UNCHANGED handled
           ELSE /\ handled' = [handled EXCEPT ![c] = handled[c] + 1]
                /\ res' = IF email = <<>>
                          THEN Json(c, route, 400, Msg("Email is required"))
                          ELSE IF v.threw
                          THEN [Json(c, route, 500,
                                     WithPrefix("Validation service unavailable: ", v.message))
                                   EXCEPT !.gateway = 1]
                          ELSE [Json(c, route, 200, v.message)
                                   EXCEPT !.success = v.isValid, !.gateway = 1]
    /\ UNCHANGED <<dbState, storeUp, openListener, listenCalls, sessions, users,
                   nextId, today, dash>>

\* A request no route answers: it passes the limiter if mounted on its path,
\* then the attempts middleware, and ends as 404.
Unrouted(c, path) ==
    /\ Listening
    /\ hits[c] < RateMax + MaxExcess
    /\ hits' = LimiterCounts(c, path)
    /\ IF LimiterRejects(c, path)
       THEN /\ res' = Json(c, "unrouted", 429, Msg("Too many requests, please try again later."))
            /\ UNCHANGED sessions
       ELSE /\ res' = [Resp(c, "unrouted") EXCEPT !.status = 404]
            /\ sessions' = [sessions EXCEPT ![c] = AttemptsInit(sessions[c])]
    /\ UNCHANGED <<dbState, storeUp, openListener, listenCalls, users, nextId,
                   today, dash, handled>>

\* windowMs passes: the limiter's counters start again.
WindowReset ==
    /\ \E c \in Clients : hits[c] > 0 \/ handled[c] > 0
    /\ hits' = [c \in Clients |-> 0]
    /\ handled' = [c \in Clients |-> 0]
    /\ UNCHANGED <<dbState, storeUp, openListener, listenCalls, sessions, users,
                   nextId, today, dash, res>>

(***************************************************************************)
(* Inputs.                                                                 *)
(***************************************************************************)
Nine == <<"9","8","7","6","5","4","3","2","1">>
S_Al == <<"A","l">>
S_Bo == <<"B","o">>
S_Cy == <<"C","y">>
E_a == <<"a","@","x",".","i","o">>
E_A == <<"A","@","X",".","i","o">>
E_b == <<"b","@","y",".","i","o">>
E_c == <<"c","@","z",".","i","o">>
Long51 == [i \in 1..(NameMaxLen + 1) |-> "x"]

Todays == {[y |-> 2026, m |-> 11, d |-> 1]}

Alice ==
    [has |-> Fields, name |-> S_Al, email |-> E_a, dob |-> [y |-> 2000, m |-> 1, d |-> 15],
     contact |-> Nine \o <<"0">>, state |-> <<"K","A">>, country |-> <<"I","N">>]
\* the same person, typed with blanks and capitals
AliceTyped == [Alice EXCEPT !.name = <<" ">> \o S_Al \o <<" ">>, !.email = E_A]
Bob ==
    [has |-> Fields, name |-> S_Bo, email |-> E_b, dob |-> [y |-> 1990, m |-> 6, d |-> 30],
     contact |-> Nine \o <<"1">>, state |-> <<"N","Y">>, country |-> <<"U","S">>]
Cy == [Bob EXCEPT !.name = S_Cy, !.email = E_c]

GoodBodies == {Alice, AliceTyped, Bob, Cy}

\* bodies the route's chain accepts and the schema rejects
SchemaBadBodies ==
    {[Cy EXCEPT !.name = <<"C">>],
     [Cy EXCEPT !.state = Long51],
     [Cy EXCEPT !.dob = [y |-> 2999, m |-> 1, d |-> 1]],
     [Cy EXCEPT !.dob = [y |-> 1800, m |-> 1, d |-> 1]]}

\* bodies the route's chain rejects
ChainBadBodies ==
    {[Cy EXCEPT !.name = <<" ">>, !.contact = Nine],
     [Cy EXCEPT !.email = <<"b","a","d">>],
     [Cy EXCEPT !.dob = NotADate],
     [Cy EXCEPT !.has = Fields \ {"country"}, !.country = <<>>]}

AllBodies == GoodBodies \cup SchemaBadBodies \cup ChainBadBodies
BadBodies == SchemaBadBodies \cup ChainBadBodies
CyBodies == {Cy} \cup BadBodies
SubmitBodies ==
    {Alice, AliceTyped, Bob,
     [Cy EXCEPT !.dob = [y |-> 2999, m |-> 1, d |-> 1]],
     [Cy EXCEPT !.email = <<"b","a","d">>]}

Blank ==
    [has |-> {}, name |-> <<>>, email |-> <<>>, dob |-> NotADate, contact |-> <<>>,
     state |-> <<>>, country |-> <<>>]

\* bodies of a partial update
EmailBodies ==
    {[Blank EXCEPT !.has = {"email"}, !.email = E_A],
     [Blank EXCEPT !.has = {"email"}, !.email = E_b]}

OtherBodies ==
    {[Blank EXCEPT !.has = {"name"}, !.name = <<"C">>],
     [Blank EXCEPT !.has = {"dob"}, !.dob = [y |-> 2999, m |-> 1, d |-> 1]],
     [Blank EXCEPT !.has = {"state", "country"}, !.state = <<"N","Y">>, !.country = <<"U","S">>],
     [Blank EXCEPT !.has = {"contact"}, !.contact = Nine],
     Blank}

PartialBodies == EmailBodies \cup OtherBodies

\* what the HTTP call to the deliverability service can produce
GatewayReplies ==
    {[kind |-> "data", deliverability |-> S_DELIVERABLE, quality |-> 95],
     [kind |-> "data", deliverability |-> S_DELIVERABLE, quality |-> 70],
     [kind |-> "data", deliverability |-> S_UNDELIVERABLE, quality |-> 0],
     [kind |-> "malformed", deliverability |-> <<>>, quality |-> 0],
     [kind |-> "error", deliverability |-> <<>>, quality |-> 0]}

PageParams == {<<>>, <<"0">>, <<"a","b","c">>, <<"1">>, <<"2">>, <<"3">>, <<"2","x">>, <<"-","1">>}
LimitParams == {<<>>, <<"0">>, <<"a","b","c">>, <<"1">>, <<"2">>}
SearchParams == {<<>>, <<" ">>, <<"a","L">>}

Usernames == {"admin", "root"}
Passwords == {"admin123", "letmein"}

AnyId == 1..MaxIds

(***************************************************************************)
(* Initial states.                                                         *)
(***************************************************************************)
\* The process has started: connectWithRetry has made its first call and the
\* once("open") listener is registered.
Init ==
    /\ dbState = "connecting"
    /\ storeUp \in BOOLEAN
    /\ openListener = TRUE
    /\ listenCalls = 0
    /\ sessions = [c \in Clients |-> NoSession]
    /\ users = <<>>
    /\ nextId = 1
    /\ today \in Todays
    /\ dash = NoDash
    /\ hits = [c \in Clients |-> 0]
    /\ handled = [c \in Clients |-> 0]
    /\ res = NoRequest

\* The server is up: the first connection succeeded and app.listen has run.
InitServing ==
    /\ dbState = "connected"
    /\ storeUp = TRUE
    /\ openListener = FALSE
    /\ listenCalls = 1
    /\ sessions = [c \in Clients |-> NoSession]
    /\ users = <<>>
    /\ nextId = 1
    /\ today \in Todays
    /\ dash = NoDash
    /\ hits = [c \in Clients |-> 0]
    /\ handled = [c \in Clients |-> 0]
    /\ res = NoRequest

\* The server is up and client c1 has logged in as admin.
InitAdmin ==
    /\ dbState = "connected"
    /\ storeUp = TRUE
    /\ openListener = FALSE
    /\ listenCalls = 1
    /\ sessions = [c \in Clients |->
                      IF c = "c1" THEN [live |-> TRUE, isAdmin |-> TRUE, attempts |-> 0]
                      ELSE NoSession]
    /\ users = <<>>
    /\ nextId = 1
    /\ today \in Todays
    /\ dash = NoDash
    /\ hits = [c \in Clients |-> 0]
    /\ handled = [c \in Clients |-> 0]
    /\ res = [NoRequest EXCEPT !.seq = 1, !.route = "POST /admin", !.status = 302,
                               !.kind = "redirect", !.target = "/dashboard"]

(***************************************************************************)
(* Next-state relations.                                                   *)
(***************************************************************************)
StartUp ==
    \/ ConnectResolve
    \/ ConnectReject
    \/ RetryTimer
    \/ DbDisconnect
    \/ DbReconnect
    \/ StoreComesUp
    \/ StoreGoesDown

Login ==
    \/ \E c \in Clients : GetAdmin(c)
    \/ \E c \in Clients, u \in Usernames, p \in Passwords : PostAdmin(c, u, p)
    \/ \E c \in Clients : Logout(c)
    \/ \E c \in Clients : SessionExpire(c)

\* start-up and the login pages
NextBoot == StartUp \/ Login

SpecBoot == Init /\ [][NextBoot]_vars

\* A pending connect settles and a set timer fires.
SpecBootFair ==
    /\ SpecBoot
    /\ WF_vars(ConnectResolve)
    /\ WF_vars(ConnectReject)
    /\ WF_vars(RetryTimer)

\* the login pages of a server that is up
SpecLogin == InitServing /\ [][Login]_vars

GatewayDown == [kind |-> "error", deliverability |-> <<>>, quality |-> 0]
GatewayGood == [kind |-> "data", deliverability |-> S_DELIVERABLE, quality |-> 95]

\* a request to each admin route, with one input each
AdminRequest(c, ids) ==
    \/ GetCreate(c)
    \/ Dashboard(c)
    \/ GetUsers(c, <<>>)
    \/ \E id \in ids : GetEdit(c, id)
    \/ \E id \in ids : Update(c, id, Alice, GatewayDown)
    \/ \E id \in ids : Delete(c, id)
    \/ DeleteAll(c)
    \/ Export(c)
    \/ ApiGetUsers(c, <<>>, <<>>, <<>>)
    \/ \E id \in ids : ApiGetUser(c, id)
    \/ ApiCreate(c, Alice)
    \/ \E id \in ids :
          ApiUpdate(c, id, [Blank EXCEPT !.has = {"state"}, !.state = <<"N","Y">>])
    \/ \E id \in ids : ApiDelete(c, id)
    \/ ApiDeleteAll(c)

\* the login pages, the public pages and every admin route, for two clients
\* c1 may log in; c2 is a visitor who does not know the password
NextAuth ==
    \/ \E c \in Clients : GetAdmin(c)
    \/ \E u \in Usernames, p \in Passwords : PostAdmin("c1", u, p)
    \/ PostAdmin("c2", "admin", "letmein")
    \/ \E c \in Clients : Logout(c)
    \/ \E c \in Clients : SessionExpire(c)
    \/ \E c \in Clients : GetPublic(c, "GET /")
    \/ AdminRequest("c1", AnyId)
    \/ AdminRequest("c2", {1})

SpecAuth == InitServing /\ [][NextAuth]_vars

\* the public submission, with every gateway reply
NextSubmit ==
    \/ StoreGoesDown
    \/ StoreComesUp
    \/ \E b \in SubmitBodies, g \in GatewayReplies : Submit("c2", b, g)
    \/ \E id \in AnyId : Delete("c1", id)

SpecSubmit == InitAdmin /\ [][NextSubmit]_vars

\* the four write paths, with e-mail addresses that differ in case or not at all
NextUnique ==
    \/ \E b \in {Alice, AliceTyped, Bob}, g \in {GatewayGood, GatewayDown} : Submit("c2", b, g)
    \/ \E b \in {Alice, AliceTyped, Bob} : ApiCreate("c1", b)
    \/ \E id \in AnyId, b \in {AliceTyped, Bob} : Update("c1", id, b, GatewayGood)
    \/ \E id \in AnyId, b \in EmailBodies : ApiUpdate("c1", id, b)
    \/ \E id \in AnyId : ApiDelete("c1", id)

SpecUnique == InitAdmin /\ [][NextUnique]_vars

\* the four write paths, with bodies the schema accepts and bodies it rejects
NextSchema ==
    \/ \E b \in CyBodies : Submit("c2", b, GatewayDown)
    \/ \E b \in CyBodies : ApiCreate("c1", b)
    \/ \E id \in AnyId, b \in CyBodies : Update("c1", id, b, GatewayDown)
    \/ \E id \in AnyId, b \in OtherBodies : ApiUpdate("c1", id, b)
    \/ DeleteAll("c1")

SpecSchema == InitAdmin /\ [][NextSchema]_vars

\* creating, deleting and listing, with every page, limit and search
NextList ==
    \/ StoreGoesDown
    \/ StoreComesUp
    \/ \E b \in {Alice, Bob, Cy} : ApiCreate("c1", b)
    \/ \E id \in AnyId : ApiDelete("c1", id)
    \/ DeleteAll("c1")
    \/ ApiDeleteAll("c1")
    \/ \E pg \in {<<>>, <<"2">>} : GetUsers("c1", pg)
    \/ \E pg \in PageParams, lm \in LimitParams : ApiGetUsers("c1", pg, lm, <<>>)
    \/ \E sr \in SearchParams : ApiGetUsers("c1", <<>>, <<>>, sr)

SpecList == InitAdmin /\ [][NextList]_vars

\* the limiter and the routes under /api/validate, for one client
NextRate ==
    \/ \E e \in {<<>>, E_a} : ApiValidateEmail("c1", e, GatewayGood)
    \/ \E p \in {LimiterMount, LimiterMount \o <<"/", "x">>} : Unrouted("c1", p)
    \/ WindowReset

SpecRate == InitServing /\ [][NextRate]_vars

\* the replies that decide an edit: valid, invalid by its quality, no reply
EditReplies ==
    {GatewayGood,
     [kind |-> "data", deliverability |-> S_DELIVERABLE, quality |-> 70],
     GatewayDown}

\* the edit form posted for stored and missing records, the store up or down
NextEdit ==
    \/ \E b \in {Alice, Bob} : ApiCreate("c1", b)
    \/ \E id \in {1, 2}, b \in {Bob, [Bob EXCEPT !.name = <<"C">>]}, g \in EditReplies :
          Update("c1", id, b, g)
    \/ Delete("c1", 1)
    \/ StoreGoesDown
    \/ StoreComesUp

SpecEdit == InitAdmin /\ [][NextEdit]_vars

\* bodies with one field, two fields, an empty field and no field
PutBodies ==
    {[Blank EXCEPT !.has = {"email"}, !.email = E_b],
     [Blank EXCEPT !.has = {"state", "country"}, !.state = <<"N","Y">>, !.country = <<"U","S">>],
     [Blank EXCEPT !.has = {"name", "contact"}, !.name = <<"C">>, !.contact = <<>>],
     Blank}

\* the partial update of stored and missing records
NextPut ==
    \/ \E b \in {Alice, Bob} : ApiCreate("c1", b)
    \/ \E id \in {1, 2}, b \in PutBodies : ApiUpdate("c1", id, b)
    \/ ApiDelete("c1", 1)
    \/ StoreGoesDown
    \/ StoreComesUp

SpecPut == InitAdmin /\ [][NextPut]_vars

\* what a cell of the grid can send: one field each
GridEdits ==
    {[Blank EXCEPT !.has = {"state"}, !.state = <<"N","Y">>],
     [Blank EXCEPT !.has = {"email"}, !.email = E_c],
     [Blank EXCEPT !.has = {"contact"}, !.contact = Nine],
     [Blank EXCEPT !.has = {"country"}, !.country = <<"U">>]}

\* the admin edits cells of the grid; records come and go
NextGrid ==
    \/ \E b \in {Alice, Bob} : ApiCreate("c1", b)
    \/ \E id \in AnyId, b \in GridEdits : updateUser("c1", id, b)
    \/ \E id \in AnyId : ApiDelete("c1", id)
    \/ StoreGoesDown
    \/ StoreComesUp

SpecGrid == InitAdmin /\ [][NextGrid]_vars

\* the dashboard's queries, with the requests of another page of the same
\* admin handled between them
NextRace ==
    \/ \E b \in {Alice, Bob} : ApiCreate("c1", b)
    \/ \E id \in AnyId : ApiDelete("c1", id)
    \/ ApiDeleteAll("c1")
    \/ DashFind("c1")
    \/ DashByYear
    \/ DashByCountry
    \/ DashAge
    \/ DashTopStates
    \/ DashRecent

SpecRace == InitAdmin /\ [][NextRace]_vars

\* The date k calendar years before now.
YearsBefore(now, k) == [now EXCEPT !.y = now.y - k]

\* days on which the dashboard is opened
AgeTodays == {[y |-> 2026, m |-> 11, d |-> 1], [y |-> 2024, m |-> 3, d |-> 1]}

\* people born 17 and 18 years ago to the day
Seventeen == [Alice EXCEPT !.dob = YearsBefore(today, 17)]
Eighteen == [Bob EXCEPT !.dob = YearsBefore(today, 18)]

InitAge ==
    /\ dbState = "connected"
    /\ storeUp = TRUE
    /\ openListener = FALSE
    /\ listenCalls = 1
    /\ sessions = [c \in Clients |->
                      IF c = "c1" THEN [live |-> TRUE, isAdmin |-> TRUE, attempts |-> 0]
                      ELSE NoSession]
    /\ users = <<>>
    /\ nextId = 1
    /\ today \in AgeTodays
    /\ dash = NoDash
    /\ hits = [c \in Clients |-> 0]
    /\ handled = [c \in Clients |-> 0]
    /\ res = [NoRequest EXCEPT !.seq = 1, !.route = "POST /admin", !.status = 302,
                               !.kind = "redirect", !.target = "/dashboard"]

\* the dashboard over records of chosen ages
NextAge ==
    \/ \E b \in {Seventeen, Eighteen} : ApiCreate("c1", b)
    \/ \E id \in AnyId, b \in {[Blank EXCEPT !.has = {"dob"}, !.dob = [y |-> 2999, m |-> 1, d |-> 1]],
                              [Blank EXCEPT !.has = {"dob"}, !.dob = YearsBefore(today, 120)]} :
          ApiUpdate("c1", id, b)
    \/ \E id \in AnyId : ApiDelete("c1", id)
    \/ StoreGoesDown
    \/ StoreComesUp
    \/ Dashboard("c1")

SpecAge == InitAge /\ [][NextAge]_vars

\* every action, every client, every input
Next ==
    \/ StartUp
    \/ Login
    \/ WindowReset
    \/ \E c \in Clients :
          \/ \E r \in {"GET /", "GET /about"} : GetPublic(c, r)
          \/ \E b \in AllBodies, g \in GatewayReplies : Submit(c, b, g)
          \/ GetCreate(c)
          \/ Dashboard(c)
          \/ \E pg \in PageParams : GetUsers(c, pg)
          \/ \E id \in AnyId : GetEdit(c, id)
          \/ \E id \in AnyId, b \in AllBodies, g \in GatewayReplies : Update(c, id, b, g)
          \/ \E id \in AnyId : Delete(c, id)
          \/ DeleteAll(c)
          \/ Export(c)
          \/ \E pg \in PageParams, lm \in LimitParams, sr \in SearchParams :
                ApiGetUsers(c, pg, lm, sr)
          \/ \E id \in AnyId : ApiGetUser(c, id)
          \/ \E b \in AllBodies : ApiCreate(c, b)
          \/ \E id \in AnyId, b \in PartialBodies : ApiUpdate(c, id, b)
          \/ \E id \in AnyId : ApiDelete(c, id)
          \/ ApiDeleteAll(c)
          \/ \E e \in {<<>>, E_a, E_A}, g \in GatewayReplies : ApiValidateEmail(c, e, g)
          \/ \E p \in {LimiterMount, LimiterMount \o <<"/", "x">>} : Unrouted(c, p)
          \/ \E id \in AnyId, b \in GridEdits : updateUser(c, id, b)
          \/ DashFind(c)
    \/ DashByYear
    \/ DashByCountry
    \/ DashAge
    \/ DashTopStates
    \/ DashRecent

Spec == Init /\ [][Next]_vars

(***************************************************************************)
(* Properties.                                                             *)
(***************************************************************************)
AdminRoutes ==
    {"GET /dashboard", "GET /users", "GET /create", "GET /edit/:id", "POST /update/:id",
     "GET /delete/:id", "GET /delete-all", "GET /export", "GET /api/users",
     "GET /api/users/:id", "POST /api/users", "PUT /api/users/:id",
     "DELETE /api/users/:id", "DELETE /api/users"}

\* C1: a request to an admin route from a session whose isAdmin is false is
\* answered with a redirect to /admin and nothing else: no store query is made,
\* no record changes, no id is used up, the session is left alone and the
\* response carries no record; and whenever the store changes, the request that
\* changed it came from a session whose isAdmin was true.
C1_GuardRedirects ==
    [][/\ (res'.seq # res.seq /\ res'.route \in AdminRoutes
              /\ ~sessions[res'.client].isAdmin) =>
              /\ res' = [Resp(res'.client, res'.route)
                            EXCEPT !.status = 302, !.kind = "redirect", !.target = "/admin"]
              /\ res'.queries = 0
              /\ res'.users = <<>>
              /\ users' = users
              /\ nextId' = nextId
              /\ sessions' = sessions
       /\ (users' # users \/ nextId' # nextId) =>
              /\ res'.seq # res.seq
              /\ res'.route \in AdminRoutes
              /\ sessions[res'.client].isAdmin]_vars

\* C1 witness: a live session that is not admin asked for delete-all while the
\* store held records, and was redirected.
C1_Witness ==
    /\ res.route = "DELETE /api/users"
    /\ res.kind = "redirect"
    /\ res.target = "/admin"
    /\ sessions[res.client].live
    /\ ~sessions[res.client].isAdmin
    /\ Len(users) > 0

LockoutMessage == Msg("Too many failed attempts. Please try again later.")

\* C2: a POST /admin that is refused while attempts is below 3 adds one to
\* attempts, so three failures in a row bring the counter to 3; from then on
\* every POST /admin of that session, whatever the credentials, renders the
\* lockout message and leaves the session (isAdmin and attempts) as it was; and
\* no step of any kind changes a locked session for as long as it lives.
C2_Lockout ==
    [][\A c \in Clients :
          LET a == IF sessions[c].live THEN sessions[c].attempts ELSE 0
          IN  /\ (res'.seq # res.seq /\ res'.route = "POST /admin" /\ res'.client = c) =>
                    /\ (a < 3 /\ res'.kind = "render") =>
                            /\ sessions'[c].attempts = a + 1
                            /\ sessions'[c].isAdmin = sessions[c].isAdmin
                    /\ a >= 3 =>
                            /\ res'.kind = "render"
                            /\ res'.target = "admin"
                            /\ res'.error = LockoutMessage
                            /\ sessions'[c] = sessions[c]
              /\ (a >= 3 /\ sessions'[c].live) => sessions'[c] = sessions[c]]_vars

\* C2 witness: a locked-out session was refused.
C2_Witness ==
    /\ res.route = "POST /admin"
    /\ res.error = LockoutMessage
    /\ sessions[res.client].attempts = 3
    /\ ~sessions[res.client].isAdmin

\* The message of a reply that is not "deliverable, with a quality above 0.7".
InvalidMessage(reply) ==
    [prefix |-> "", tpl |-> "Email ${deliverability} (Quality: ${quality_score})",
     str |-> IF reply.deliverability = S_DELIVERABLE
             THEN <<"d","e","l","i","v","e","r","a","b","l","e">>
             ELSE <<"u","n","d","e","l","i","v","e","r","a","b","l","e">>,
     num |-> reply.quality]

\* C3: a POST /submit whose fields pass the route's validation and whose gateway
\* reply is well formed but not "DELIVERABLE with quality above 0.7" leaves the
\* store as it was and renders the form with the gateway's message, unaltered,
\* as the error.
C3_InvalidBlocksSave ==
    [][(/\ res'.seq # res.seq
        /\ res'.route = "POST /submit"
        /\ res'.req.reply.kind = "data"
        /\ ~(res'.req.reply.deliverability = S_DELIVERABLE /\ res'.req.reply.quality > 70)
        /\ ChainErrors(res'.req.body, FALSE) = <<>>) =>
           /\ users' = users
           /\ nextId' = nextId
           /\ res'.kind = "render"
           /\ res'.target = "index"
           /\ res'.error = InvalidMessage(res'.req.reply)
           /\ ~res'.success
           /\ res'.validationMessage = NullMsg]_vars

\* C3 witness: with records in the store, a submission was refused because the
\* address, though deliverable, had a quality of exactly 0.7.
C3_Witness ==
    /\ res.route = "POST /submit"
    /\ res.req.body = Bob
    /\ res.req.reply.deliverability = S_DELIVERABLE
    /\ res.error.tpl = "Email ${deliverability} (Quality: ${quality_score})"
    /\ res.error.num = 70
    /\ res.gateway = 1
    /\ Len(users) > 0

\* C4: a POST /submit whose fields pass the route's validation and whose gateway
\* call fails (no reply, or a reply of the wrong shape) is never refused on the
\* gateway's account; whenever it changes the store it appends exactly one record
\* whose validationStatus is "Validation unavailable"; and it does so whenever
\* the store is reachable, the schema accepts the fields and the address is new.
C4_UnavailableStillSaves ==
    [][(/\ res'.seq # res.seq
        /\ res'.route = "POST /submit"
        /\ res'.req.reply.kind \in {"malformed", "error"}
        /\ ChainErrors(res'.req.body, FALSE) = <<>>) =>
           LET body == res'.req.body
           IN  /\ res'.error = NullMsg \/ res'.error.prefix = "Server error: "
               /\ res'.success <=> users' # users
               /\ users' # users =>
                     /\ Len(users') = Len(users) + 1
                     /\ SubSeq(users', 1, Len(users)) = users
                     /\ users'[Len(users')].validationStatus = Msg("Validation unavailable")
                     /\ res'.validationMessage = Msg("Validation unavailable")
               /\ (/\ dbState = "connected" /\ storeUp
                   /\ body \in {Alice, AliceTyped, Bob}
                   /\ \A i \in 1..Len(users) : users[i].email # E_a \/ body = Bob
                   /\ \A i \in 1..Len(users) : users[i].email # E_b \/ body # Bob)
                     => res'.success]_vars

\* C4 witness: the gateway was down and the record was saved all the same.
C4_Witness ==
    /\ res.route = "POST /submit"
    /\ res.req.reply.kind = "malformed"
    /\ res.success
    /\ res.validationMessage = Msg("Validation unavailable")
    /\ Len(users) > 0
    /\ users[Len(users)].validationStatus = Msg("Validation unavailable")

\* C5: no two stored records have e-mail addresses that are equal when letter
\* case is ignored; a create (POST /submit that the gateway lets through, or
\* POST /api/users) whose fields pass validation and whose address equals a
\* stored one but for case, made while the store is reachable, stores nothing
\* and fails with "Email already exists"; and a create that succeeds stores the
\* address in lower case.
C5_UniqueIgnoringCase ==
    /\ [](\A i, j \in 1..Len(users) :
             i # j => toLowerCase(users[i].email) # toLowerCase(users[j].email))
    /\ [][(/\ res'.seq # res.seq
           /\ res'.route \in {"POST /submit", "POST /api/users"}
           /\ ChainErrors(res'.req.body, FALSE) = <<>>
           /\ res'.req.reply.kind = "data" =>
                 (res'.req.reply.deliverability = S_DELIVERABLE /\ res'.req.reply.quality > 70)
           /\ dbState = "connected" /\ storeUp) =>
              LET body == res'.req.body
                  stored == IF body.email \in {E_a, E_A} THEN E_a ELSE E_b
              IN  /\ body \in {Alice, AliceTyped, Bob}
                  /\ IF \E i \in 1..Len(users) :
                            toLowerCase(users[i].email) = toLowerCase(body.email)
                     THEN /\ users' = users
                          /\ nextId' = nextId
                          /\ ~res'.success
                          /\ res'.error.tpl = "Email already exists"
                          /\ res'.error.prefix =
                                 IF res'.route = "POST /submit" THEN "Server error: " ELSE ""
                          /\ res'.status = IF res'.route = "POST /submit" THEN 200 ELSE 500
                     ELSE /\ Len(users') = Len(users) + 1
                          /\ users'[Len(users')].email = stored]_vars

\* C5 witness: with a@x.io stored, a submission of A@X.io was refused as a
\* duplicate.
C5_Witness ==
    /\ res.route = "POST /submit"
    /\ res.req.body = AliceTyped
    /\ res.error = [Msg("Email already exists") EXCEPT !.prefix = "Server error: "]
    /\ \E i \in 1..Len(users) : users[i].email = E_a
    /\ \A i \in 1..Len(users) : users[i].email # E_A

\* Whether date a is not after date b.
NotAfter(a, b) ==
    \/ a.y < b.y
    \/ a.y = b.y /\ a.m < b.m
    \/ a.y = b.y /\ a.m = b.m /\ a.d <= b.d

\* C6: every stored record, whichever write path put it there, has a dob that is
\* not after today and not more than 120 years before today, a contact of
\* exactly 10 digits, and a name, state and country of 2 to 50 characters.
C6_StoredRecordsValid ==
    \A i \in 1..Len(users) :
        LET u == users[i]
        IN  /\ NotAfter(u.dob, today)
            /\ NotAfter([y |-> today.y - 120, m |-> today.m, d |-> today.d], u.dob)
            /\ Len(u.contact) = 10
            /\ \A k \in 1..Len(u.contact) :
                   u.contact[k] \in {"0","1","2","3","4","5","6","7","8","9"}
            /\ Len(u.name) \in 2..50
            /\ Len(u.state) \in 2..50
            /\ Len(u.country) \in 2..50

\* C7: a list request (GET /api/users or GET /users) that comes straight after
\* a delete-all (DELETE /api/users or GET /delete-all) that succeeded, with no
\* request in between, returns no record and totalPages 1.
C7_DeleteAllThenList ==
    [][(/\ res'.seq # res.seq
        /\ res.route \in {"DELETE /api/users", "GET /delete-all"}
        /\ res.status \in {204, 302}
        /\ res.target \in {"", "/users"}
        /\ res'.route \in {"GET /api/users", "GET /users"}) =>
           /\ res'.users = <<>>
           /\ res'.totalPages = 1]_vars

\* The least k with k * L >= N.
CeilDiv(N, L) == CHOOSE k \in 0..N : k * L >= N /\ \A j \in 0..N : j * L >= N => k <= j

Min(a, b) == IF a < b THEN a ELSE b
Max(a, b) == IF a > b THEN a ELSE b

\* The outcome of GET /api/users (no search) on a reachable store, for page p
\* and limit L.
PageOutcome(p, L) ==
    LET N == Len(users)
        n == Min(L, Max(0, N - (p - 1) * L))
    IN  /\ res'.status = 200
        /\ res'.page = p
        /\ res'.totalUsers = N
        /\ Len(res'.users) = n
        /\ \A k \in 1..n : res'.users[k] = users[(p - 1) * L + k]
        /\ res'.totalPages = CeilDiv(N, L)

\* A GET /api/users without search, answered by a reachable store.
ListStep ==
    /\ res'.seq # res.seq
    /\ res'.route = "GET /api/users"
    /\ res'.req.search = <<>>
    /\ res'.req.page # <<"-","1">>
    /\ sessions[res'.client].isAdmin
    /\ dbState = "connected" /\ storeUp

C9_AtMostMaxPerWindow == \A c \in Clients : handled[c] <= 100

\* C10: no request is answered before the first connection has succeeded and
\* the server listens; a failed connection attempt leaves the server waiting for
\* the retry timer, and the timer always leads to another attempt; the server
\* calls listen at most once, whatever the connection does later; and if the
\* store becomes reachable and stays so, the server eventually listens.
C10_StartUp ==
    /\ [](res.route # "none" => listenCalls > 0)
    /\ [](listenCalls > 0 => dbState \in {"connected", "disconnected"})
    /\ [](listenCalls <= 1)
    /\ [][(dbState = "connecting" /\ dbState' # "connecting") =>
              \/ dbState' = "connected" /\ storeUp /\ listenCalls' = 1
              \/ dbState' = "retryWait" /\ ~storeUp /\ listenCalls' = 0]_vars
    /\ [][dbState = "retryWait" => dbState' \in {"retryWait", "connecting"}]_vars
    /\ (dbState = "retryWait") ~> (dbState = "connecting")
    /\ (<>[]storeUp) => <>(listenCalls = 1)

\* C10 witness: the server listens, its one-time "open" listener is gone, the
\* connection has since been lost, and a request has been answered.
C10_Witness ==
    /\ listenCalls = 1
    /\ ~openListener
    /\ dbState = "disconnected"
    /\ res.route # "none"

\* The count a series gives for a label (0 if the label is absent).
CountOf(series, label) ==
    IF \E x \in series : x.label = label
    THEN (CHOOSE x \in series : x.label = label).count
    ELSE 0

\* C11: on every rendered dashboard, each stored record whose dob is exactly 17
\* calendar years before today is counted in the bucket that starts at 0, and
\* each whose dob is exactly 18 calendar years before today in the bucket that
\* starts at 18.
C11_AgeBuckets ==
    [][(/\ res'.seq # res.seq
        /\ res'.route = "GET /dashboard"
        /\ res'.target = "dashboard") =>
           LET born(k) == {i \in 1..Len(users) : users[i].dob = YearsBefore(today, k)}
           IN  /\ CountOf(res'.series.age, "0") >= Cardinality(born(17))
               /\ CountOf(res'.series.age, "18") >= Cardinality(born(18))]_vars

\* C12: GET /logout leaves the client with no session at all, whatever isAdmin
\* and attempts were, and answers with a redirect to /admin; no request of
\* another client changes that; and a client with no session is redirected to
\* /admin by every guarded route and has its POST /admin judged with attempts
\* at 0: the right credentials are admitted, wrong ones leave 2 attempts.
C12_LogoutClearsSession ==
    [][\A c \in Clients :
          /\ (res'.seq # res.seq /\ res'.route = "GET /logout" /\ res'.client = c) =>
                /\ sessions'[c] = NoSession
                /\ res'.kind = "redirect"
                /\ res'.target = "/admin"
          /\ (res'.seq # res.seq /\ res'.client # c) => sessions'[c] = sessions[c]
          /\ (sessions[c] = NoSession /\ res'.seq # res.seq /\ res'.client = c) =>
                /\ res'.route \in AdminRoutes =>
                      /\ res'.kind = "redirect"
                      /\ res'.target = "/admin"
                      /\ sessions'[c] = NoSession
                /\ res'.route = "POST /admin" =>
                      \/ /\ res'.kind = "redirect"
                         /\ res'.target = "/dashboard"
                         /\ sessions'[c] = [live |-> TRUE, isAdmin |-> TRUE, attempts |-> 0]
                      \/ /\ res'.kind = "render"
                         /\ res'.error = [Msg("Invalid credentials. ${n} attempts remaining.")
                                             EXCEPT !.num = 2]
                         /\ sessions'[c] = [live |-> TRUE, isAdmin |-> FALSE, attempts |-> 1]]_vars

\* C12 witness: the admin who created the stored records has logged out and
\* is left with no session.
C12_Witness ==
    /\ res.route = "GET /logout"
    /\ res.client = "c1"
    /\ sessions["c1"] = NoSession
    /\ Len(users) > 0

\* C13: a GET /dashboard of an admin while the store holds no record and
\* answers the handler's query renders the dashboard with totalUsers 0 and with
\* usersOverTime, usersByCountry, ageDistribution, topStates and recentUsers
\* empty, after one query (the find that counts the records) and no aggregate,
\* and with no error; and whatever the store's condition, it changes nothing.
C13_EmptyDashboard ==
    [][(/\ res'.seq # res.seq
        /\ res'.route = "GET /dashboard"
        /\ sessions[res'.client].isAdmin
        /\ Len(users) = 0) =>
           /\ users' = users
           /\ (dbState = "connected" /\ storeUp) =>
                 /\ res'.kind = "render"
                 /\ res'.target = "dashboard"
                 /\ res'.status = 200
                 /\ res'.error = NullMsg
                 /\ res'.totalUsers = 0
                 /\ res'.series = NoSeries
                 /\ res'.users = <<>>
                 /\ res'.queries = 1]_vars

\* C13 witness: the dashboard of an empty store was rendered, after records
\* had been created and deleted again.
C13_Witness ==
    /\ res.route = "GET /dashboard"
    /\ res.target = "dashboard"
    /\ res.totalUsers = 0
    /\ res.series = NoSeries
    /\ Len(users) = 0
    /\ nextId > 1

C15_PartialUpdateFrame ==
    [][(/\ res'.seq # res.seq
        /\ res'.route = "PUT /api/users/:id"
        /\ sessions[res'.client].isAdmin) =>
           LET id == res'.req.id
               body == res'.req.body
               doc == Cast(Sanitize(body))
           IN  /\ res'.gateway = 0
               /\ nextId' = nextId
               /\ Len(users') = Len(users)
               /\ \A i \in 1..Len(users) :
                     /\ users[i].id # id => users'[i] = users[i]
                     /\ users'[i].id = users[i].id
                     /\ users'[i].createdAt = users[i].createdAt
                     /\ users'[i].validationStatus = users[i].validationStatus
                     /\ \A f \in Fields \ body.has : users'[i][f] = users[i][f]
                     /\ (users[i].id = id /\ res'.status = 200) =>
                           \A f \in body.has :
                              (f = "dob" \/ body[f] # <<>>) => users'[i][f] = doc[f]]_vars

\* C15 witness: a body with state and country alone was stored in a record
\* that keeps its name, and the list holds another record.
C15_Witness ==
    /\ res.route = "PUT /api/users/:id"
    /\ res.status = 200
    /\ res.req.body.has = {"state", "country"}
    /\ Len(users) > 1
    /\ \E i \in 1..Len(users) :
          /\ users[i].id = res.req.id
          /\ users[i].state = <<"N", "Y">>
          /\ users[i].name = Alice.name
          /\ users[i].email = Alice.email

\* C16: every request the grid sends for an edited cell is answered by the
\* partial-update handler of /api/users/:id, and when the admin's edit names a
\* stored record and the store is reachable, the record has the value sent.
C16_GridEditUpdates ==
    [][(res'.seq # res.seq /\ res'.req.id # 0) =>
          LET id == res'.req.id
              doc == Cast(Sanitize(res'.req.body))
          IN  /\ res'.route = "PUT /api/users/:id"
              /\ (/\ sessions[res'.client].isAdmin
                  /\ dbState = "connected" /\ storeUp
                  /\ \A i \in 1..Len(users) : users[i].email # doc.email) =>
                    \A i \in 1..Len(users) :
                       users[i].id = id =>
                          \A f \in res'.req.body.has : users'[i][f] = doc[f]]_vars

\* The sum of the counts of a series.
RECURSIVE SumCounts(_)
SumCounts(series) ==
    IF series = {} THEN 0
    ELSE LET x == CHOOSE x \in series : TRUE
         IN  x.count + SumCounts(series \ {x})

\* C17: on every rendered dashboard totalUsers is the sum of the per-year
\* counts of usersOverTime, and recentUsers holds no more records than
\* totalUsers counts.
C17_ConsistentDashboard ==
    (res.route = "GET /dashboard" /\ res.target = "dashboard") =>
        /\ res.totalUsers = SumCounts(res.series.overTime)
        /\ Len(res.users) <= res.totalUsers

\* C18: the attempts counter of a session is always in 0..3 and the number of
\* remaining attempts shown by a refused POST /admin is in 0..2; a POST /admin
\* of a session whose isAdmin is true leaves it true, whether it is admitted,
\* refused or locked out, and isAdmin is lost only by that client's GET /logout
\* or by the session's expiry; and a session with isAdmin true and attempts at
\* 3 is not redirected by the guard.
C18_AttemptsAndAdmin ==
    [][\A c \in Clients :
          /\ sessions'[c].live => sessions'[c].attempts \in 0..3
          /\ (res'.seq # res.seq /\ res'.route = "POST /admin" /\ res'.client = c) =>
                /\ res'.error.tpl = "Invalid credentials. ${n} attempts remaining." =>
                      res'.error.num \in 0..2
                /\ sessions[c].isAdmin => sessions'[c].isAdmin
          /\ (sessions[c].isAdmin /\ ~sessions'[c].isAdmin) =>
                \/ res'.seq # res.seq /\ res'.route = "GET /logout" /\ res'.client = c
                \/ res' = res /\ sessions'[c] = NoSession
          /\ (/\ sessions[c].isAdmin /\ sessions[c].attempts >= 3
              /\ res'.seq # res.seq /\ res'.client = c /\ res'.route \in AdminRoutes) =>
                ~(res'.kind = "redirect" /\ res'.target = "/admin")]_vars

\* C18 witness: a session that is locked out and still admin was shown the
\* dashboard.
C18_Witness ==
    /\ res.route = "GET /dashboard"
    /\ res.target = "dashboard"
    /\ sessions[res.client].isAdmin
    /\ sessions[res.client].attempts = 3

====
